---- MODULE Spec2Model ----
(***************************************************************************)
(* Model of the three mijn.host dynamic-DNS updaters of this repository:   *)
(*   mijnhost.py               (async client, retries, record management)  *)
(*   mijn_host_ddns_updater.py (multi-record, dry run, built-in scheduler) *)
(*   mijn_host_ddns_update.py  (single record, one shot, update only)      *)
(* and of the helper retry_async of mijnhost.py, driven with a stub.       *)
(*                                                                         *)
(* Text is modelled as a sequence of tokens: a name "home.example.com." is *)
(* <<"home", ".", "example.com", ".">>, an address "1.2.3.4" is            *)
(* <<"1","2","3","4">>, "::1" is <<"::","1">>.  None and the empty string  *)
(* are both the empty sequence (the code tests them with `is not None` on  *)
(* values that are never empty, or with truthiness).                       *)
(***************************************************************************)
EXTENDS Integers, Sequences, FiniteSets, TLC

VARIABLES
    prog,            \* which program runs
    config,          \* the loaded configuration
    remote,          \* the record set held by the DNS provider
    pc,              \* position of the program
    records,         \* existing_records / records_to_update of the pass
    fetched,         \* history: the record set as get_records returned it
    a_idx,           \* update_record_list: index of the A record, 0 = None
    aaaa_idx,        \* update_record_list: index of the AAAA record, 0 = None
    ipv4,            \* discovered IPv4 address of the pass, Absent = None
    ipv6,            \* discovered IPv6 address of the pass, Absent = None
    action_taken,    \* action_taken of mijnhost.py and mijn_host_ddns_update.py
    remove_a_rec,    \* update_record_list: remove_a_rec
    remove_aaaa_rec, \* update_record_list: remove_aaaa_rec
    changes,         \* changes_found / the change lines logged at info level
    attempt,         \* loop variable of the retry loop in progress
    op,              \* history: the network operation last invoked
    calls,           \* history: invocations made by the call of op in progress
                     \*   or that failed; 0 once op has returned
    last,            \* history: outcome of the last invocation
    result           \* how the last pass ended

vars == <<prog, config, remote, pc, records, fetched, a_idx, aaaa_idx, ipv4, ipv6,
          action_taken, remove_a_rec, remove_aaaa_rec, changes, attempt, op,
          calls, last, result>>

(***************************************************************************)
(* Bounds of the model.                                                    *)
(***************************************************************************)
\* longest record set the provider holds initially
MaxRecords == 2
\* no new pass starts once the provider holds more records than this
MaxRemote == 2
\* largest `retries` argument tried for retry_async
MaxRetries == 3

(***************************************************************************)
(* Text: names.                                                            *)
(***************************************************************************)
Absent == <<>>

Domain == <<"example.com">>

ShortNames == {"home", "@"}

RECURSIVE rstrip_dot(_)
\* str.rstrip('.'): drops every trailing dot
rstrip_dot(name) ==
    IF name # <<>> /\ name[Len(name)] = "."
    THEN rstrip_dot(SubSeq(name, 1, Len(name) - 1))
    ELSE name

\* f"{record_name}.{domain_name}"
Dotted(short) == <<short, ".">> \o Domain

\* mijnhost.py main: the record name the lookups compare with
M_record_name(short) ==
    IF short = "@" THEN Domain \o <<".">> ELSE Dotted(short)

\* mijn_host_ddns_updater.py: full_target_name
U_full_target_name(short) ==
    rstrip_dot(IF short # "@" THEN Dotted(short) ELSE Domain)

\* mijn_host_ddns_updater.py: normalize_record_name
normalize_record_name(name) == rstrip_dot(name)

\* mijn_host_ddns_update.py: record_name
V_record_name(short) ==
    IF short # "@" THEN Dotted(short) ELSE Domain

(***************************************************************************)
(* Text: IP literals, as ipaddress.IPv4Address / IPv6Address read and      *)
(* print them.                                                             *)
(***************************************************************************)
DecOctets == {"1", "2", "3", "4", "5", "6", "7", "8"}

DecOctetValue(tok) ==
    CASE tok = "1" -> 1 [] tok = "2" -> 2 [] tok = "3" -> 3 [] tok = "4" -> 4
      [] tok = "5" -> 5 [] tok = "6" -> 6 [] tok = "7" -> 7 [] tok = "8" -> 8

DecOctetText(n) ==
    CASE n = 1 -> "1" [] n = 2 -> "2" [] n = 3 -> "3" [] n = 4 -> "4"
      [] n = 5 -> "5" [] n = 6 -> "6" [] n = 7 -> "7" [] n = 8 -> "8"

\* IPv4Address(text) does not raise
IPv4Valid(text) ==
    /\ Len(text) = 4
    /\ \A i \in 1..4 : text[i] \in DecOctets

\* str(IPv4Address(text)), for a valid text
IPv4Str(text) == [i \in 1..4 |-> DecOctetText(DecOctetValue(text[i]))]

Hextets == {"0", "0000", "1", "0001", "2"}

HextetValue(tok) ==
    CASE tok = "0" -> 0 [] tok = "0000" -> 0
      [] tok = "1" -> 1 [] tok = "0001" -> 1
      [] tok = "2" -> 2

HextetText(n) == CASE n = 0 -> "0" [] n = 1 -> "1" [] n = 2 -> "2"

DoubleColons(text) == {i \in 1..Len(text) : text[i] = "::"}

\* IPv6Address(text) does not raise: eight groups, or fewer around one "::"
IPv6Valid(text) ==
    /\ text # <<>>
    /\ Cardinality(DoubleColons(text)) <= 1
    /\ \A i \in (1..Len(text)) \ DoubleColons(text) : text[i] \in Hextets
    /\ IF DoubleColons(text) = {} THEN Len(text) = 8 ELSE Len(text) - 1 <= 7

\* the eight groups of a valid text, "::" filled with zero groups
IPv6Groups(text) ==
    IF DoubleColons(text) = {}
    THEN [i \in 1..8 |-> HextetValue(text[i])]
    ELSE LET k  == CHOOSE i \in DoubleColons(text) : TRUE
             lo == Len(text) - k
         IN  [i \in 1..8 |->
                 IF i < k THEN HextetValue(text[i])
                 ELSE IF i > 8 - lo THEN HextetValue(text[Len(text) - (8 - i)])
                 ELSE 0]

\* length of the run of zero groups starting at s
ZeroRun(groups, s) ==
    IF groups[s] # 0 \/ (s > 1 /\ groups[s - 1] = 0) THEN 0
    ELSE Cardinality({e \in s..8 : \A j \in s..e : groups[j] = 0})

\* the groups printed: the longest run of two or more zero groups, leftmost
\* on a tie, becomes "::"
IPv6Print(groups) ==
    LET best == {s \in 1..8 : /\ ZeroRun(groups, s) > 1
                              /\ \A t \in 1..8 :
                                    \/ ZeroRun(groups, t) < ZeroRun(groups, s)
                                    \/ (ZeroRun(groups, t) = ZeroRun(groups, s) /\ t >= s)}
        all  == [i \in 1..8 |-> HextetText(groups[i])]
    IN  IF best = {} THEN all
        ELSE LET s == CHOOSE x \in best : TRUE
                 n == ZeroRun(groups, s)
             IN  SubSeq(all, 1, s - 1) \o <<"::">> \o SubSeq(all, s + n, 8)

\* str(IPv6Address(text)), for a valid text
IPv6Str(text) == IPv6Print(IPv6Groups(text))

(***************************************************************************)
(* Records and the inputs the model draws.                                 *)
(***************************************************************************)
Rec(t, n, v, l) == [type |-> t, name |-> n, value |-> v, ttl |-> l]

V4a == <<"1", "2", "3", "4">>
V4b == <<"5", "6", "7", "8">>
V6one == <<"::", "1">>
V6oneLong == <<"0", "0", "0", "0", "0", "0", "0", "0001">>
V6two == <<"::", "2">>
Malformed == <<"bogus">>

HomeName == Dotted("home")
HomeNameDot == Dotted("home") \o <<".">>
ApexNameDot == Domain \o <<".">>

\* records the provider may hold when the program starts
SampleRecords ==
    { Rec("A", HomeName, V4a, 1800),
      Rec("A", HomeName, V4b, 300),
      Rec("A", HomeNameDot, V4a, 300),
      Rec("A", HomeName, Malformed, 300),
      Rec("A", ApexNameDot, V4a, 300),
      Rec("AAAA", HomeName, V6two, 1800),
      Rec("AAAA", HomeName, V6oneLong, 300),
      Rec("MX", Domain, <<"mail">>, 300) }

SeqsUpTo(S, n) == UNION {[1..k -> S] : k \in 0..n}

\* bodies the public-IP service may answer with
Ipv4Bodies == {V4b, Malformed}
Ipv6Bodies == {V6one, Malformed}

\* the least index of a set of indices, 0 (None) when it is empty: what
\* next((i for ... if ...), None) yields
FirstIdx(S) ==
    IF S = {} THEN 0 ELSE CHOOSE i \in S : \A j \in S : i <= j

Change(k, t, n) == [kind |-> k, type |-> t, name |-> n]

(***************************************************************************)
(* mijnhost.py: update_record_list, cut at its awaits.                     *)
(***************************************************************************)
DEFAULT_TTL == 300

\* next((i for i, r in enumerate(records) if r.type == t and r.name == name), None)
M_find(recs, t, name) ==
    FirstIdx({i \in 1..Len(recs) : recs[i].type = t /\ recs[i].name = name})

\* ipaddress.IPv4Address(value) / IPv6Address(value) raises
M_value_raises(t, value) ==
    IF t = "A" THEN ~IPv4Valid(value) ELSE ~IPv6Valid(value)

\* str(ipaddress.IPv4Address(rec.value)) == str(ip)
M_same_address(t, value, ip) ==
    IF t = "A" THEN IPv4Str(value) = ip ELSE IPv6Str(value) = ip

\* faulty variant of M_compare: the stored value is compared as text
M_compare_as_text(t, value, ip) == IF value = ip THEN "same" ELSE "differs"

\* if str(ipaddress.IPv4Address(a_rec.value)) == str(ipv4): ... else: ...
\* with the ValueError of the constructor as a third outcome
M_compare(t, value, ip) ==
    IF M_value_raises(t, value) THEN "raises"
    ELSE IF M_same_address(t, value, ip) THEN "same"
    ELSE "differs"

\* faulty variant of M_new_ttl: the sibling's ttl is not looked at
M_new_ttl_default(recs, sib_idx) == DEFAULT_TTL

\* faulty variant of M_may_create: the create branch without its manage_records test
M_may_create_always(manage) == TRUE

\* if config.manage_records:  (create branch)
M_may_create(manage) == manage

\* elif config.manage_records:  (delete branch)
M_may_remove(manage) == manage

\* ttl = records[sibling_idx].ttl if sibling_idx is not None else DEFAULT_TTL
M_new_ttl(recs, sib_idx) ==
    IF sib_idx # 0 THEN recs[sib_idx].ttl ELSE DEFAULT_TTL

\* faulty variant of M_updated: the record is rebuilt with the default ttl
M_updated_with_default_ttl(recs, idx, ip) ==
    [recs EXCEPT ![idx].value = ip, ![idx].ttl = DEFAULT_TTL]

\* a_rec.value = str(ipv4) / aaaa_rec.value = str(ipv6)
M_updated(recs, idx, ip) == [recs EXCEPT ![idx].value = ip]

\* The "Handle A record" / "Handle AAAA record" block, run once the lookup of
\* that family has returned ip (Absent for None).
M_handle(t, recs, manage, name, idx, sib_idx, ip) ==
    LET same == [records |-> recs, action |-> FALSE, remove |-> FALSE,
                 log |-> <<>>, raised |-> FALSE]
    IN  IF idx # 0
        THEN IF ip # Absent
             THEN IF M_compare(t, recs[idx].value, ip) = "raises"
                  THEN [same EXCEPT !.raised = TRUE]
                  ELSE IF M_compare(t, recs[idx].value, ip) = "same"
                  THEN same
                  ELSE [same EXCEPT !.records = M_updated(recs, idx, ip),
                                    !.action = TRUE,
                                    !.log = <<Change("Update", t, name)>>]
             ELSE IF M_may_remove(manage)
                  THEN [same EXCEPT !.remove = TRUE]
                  ELSE same
        ELSE IF ip # Absent /\ M_may_create(manage)
             THEN [same EXCEPT
                      !.records = Append(recs, Rec(t, name, ip, M_new_ttl(recs, sib_idx))),
                      !.action = TRUE,
                      !.log = <<Change("Create", t, name)>>]
             ELSE same

\* faulty variant of M_remove: the removal filter without its name test
M_remove_any_name(recs, t, name) ==
    SelectSeq(recs, LAMBDA r : r.type # t)

\* records[:] = [r for r in records if not (r.type == t and r.name == name)]
M_remove(recs, t, name) ==
    SelectSeq(recs, LAMBDA r : ~(r.type = t /\ r.name = name))

\* "# Remove records if needed" up to the return of update_record_list
M_finish(recs, name, rem_a, rem_aaaa, action, log) ==
    LET r1 == IF rem_a THEN M_remove(recs, "A", name) ELSE recs
        r2 == IF rem_aaaa THEN M_remove(r1, "AAAA", name) ELSE r1
        l1 == IF rem_a THEN Append(log, Change("Delete", "A", name)) ELSE log
        l2 == IF rem_aaaa THEN Append(l1, Change("Delete", "AAAA", name)) ELSE l1
    IN  [records |-> r2, action |-> action \/ rem_a \/ rem_aaaa, log |-> l2]

\* faulty variant of M_routine_puts: routine writes whatever update_record_list returned
M_routine_puts_always(action) == TRUE

\* routine: if action_taken: put_records(...)
M_routine_puts(action) == action

(***************************************************************************)
(* mijn_host_ddns_updater.py: the loop of update_ddns.                     *)
(***************************************************************************)
\* next((r for r in records_to_update if r["type"] == t and
\*       normalize_record_name(r["name"]) == full_target_name), None)
U_find(recs, t, full) ==
    FirstIdx({i \in 1..Len(recs) :
                 recs[i].type = t /\ normalize_record_name(recs[i].name) = full})

\* if a_record["value"] != public_ip
U_differs(value, ip) == value # ip

\* new_record = {"type": t, "name": record_name_from_config, "value": ip, "ttl": default_ttl}
U_new_record(t, short, ip, cfg) == Rec(t, <<short>>, ip, cfg.default_ttl)

\* "Process IPv4 (A record)" / "Process IPv6 (AAAA record)" for one name
U_process(t, st, short, ip, cfg) ==
    LET full == U_full_target_name(short)
        idx  == U_find(st.records, t, full)
    IN  IF ip = Absent THEN st
        ELSE IF idx # 0
        THEN IF U_differs(st.records[idx].value, ip)
             THEN [records |-> [st.records EXCEPT ![idx].value = ip],
                   changes |-> Append(st.changes, Change("Update", t, full))]
             ELSE st
        ELSE IF cfg.create_records_if_missing
        THEN [records |-> Append(st.records, U_new_record(t, short, ip, cfg)),
              changes |-> Append(st.changes, Change("Create", t, full))]
        ELSE st

RECURSIVE U_loop(_, _, _, _, _)
\* for record_name_from_config in record_names_to_update: ...
U_loop(names, st, ip4, ip6, cfg) ==
    IF names = <<>> THEN st
    ELSE U_loop(Tail(names),
                U_process("AAAA", U_process("A", st, Head(names), ip4, cfg),
                          Head(names), ip6, cfg),
                ip4, ip6, cfg)

\* faulty variant of U_puts: the write without its dry_run test
U_puts_despite_dry_run(chg, dry_run) == chg # <<>>

\* if changes_found: if dry_run: ... else: put_records(...)
U_puts(chg, dry_run) == chg # <<>> /\ ~dry_run

(***************************************************************************)
(* mijn_host_ddns_update.py: the two steps of update_ddns.                 *)
(***************************************************************************)
\* next((r for r in records_to_update if r["type"] == t and r["name"] == record_name), None)
V_find(recs, t, name) ==
    FirstIdx({i \in 1..Len(recs) : recs[i].type = t /\ recs[i].name = name})

\* "Stap 1" / "Stap 2": update the record of one family when it differs
V_process(t, recs, name, ip) ==
    LET idx == V_find(recs, t, name)
        same == [records |-> recs, action |-> FALSE, log |-> <<>>]
    IN  IF ip # Absent /\ idx # 0 /\ recs[idx].value # ip
        THEN [records |-> [recs EXCEPT ![idx].value = ip], action |-> TRUE,
              log |-> <<Change("Update", t, name)>>]
        ELSE same

\* if action_taken: put_records(...)
V_puts(action) == action

(***************************************************************************)
(* Configurations and the initial state.                                   *)
(***************************************************************************)
Programs == {"mijnhost", "updater", "update", "retry_async"}

Intervals == {0, 60}

BaseConfig ==
    [record_name |-> "home", record_names |-> <<>>, manage_records |-> FALSE,
     create_records_if_missing |-> FALSE, dry_run |-> FALSE, interval |-> 0,
     default_ttl |-> 300, retries |-> 0]

ConfigsOf(p) ==
    CASE p = "mijnhost" ->
            {[BaseConfig EXCEPT !.record_name = n, !.manage_records = m, !.interval = i] :
                n \in ShortNames, m \in BOOLEAN, i \in Intervals}
      [] p = "updater" ->
            {[BaseConfig EXCEPT !.record_names = ns, !.create_records_if_missing = c,
                                !.dry_run = d, !.interval = i] :
                ns \in {<<"home">>, <<"@", "home">>}, c \in BOOLEAN, d \in BOOLEAN,
                i \in Intervals}
      [] p = "update" ->
            {[BaseConfig EXCEPT !.record_name = n] : n \in ShortNames}
      [] p = "retry_async" ->
            {[BaseConfig EXCEPT !.retries = r] : r \in 0..MaxRetries}

Init ==
    /\ prog \in Programs
    /\ config \in ConfigsOf(prog)
    /\ remote \in (IF prog = "retry_async" THEN {<<>>}
                   ELSE SeqsUpTo(SampleRecords, MaxRecords))
    /\ pc = "main"
    /\ records = <<>>
    /\ fetched = <<>>
    /\ a_idx = 0
    /\ aaaa_idx = 0
    /\ ipv4 = Absent
    /\ ipv6 = Absent
    /\ action_taken = FALSE
    /\ remove_a_rec = FALSE
    /\ remove_aaaa_rec = FALSE
    /\ changes = <<>>
    /\ attempt = 0
    /\ op = "none"
    /\ calls = 0
    /\ last = "none"
    /\ result = "none"

(***************************************************************************)
(* Steps shared by the programs.                                           *)
(***************************************************************************)
\* a pass begins: nothing of the previous pass is kept
BeginPass ==
    /\ pc' = "get_records"
    /\ records' = <<>>
    /\ fetched' = <<>>
    /\ a_idx' = 0
    /\ aaaa_idx' = 0
    /\ ipv4' = Absent
    /\ ipv6' = Absent
    /\ action_taken' = FALSE
    /\ remove_a_rec' = FALSE
    /\ remove_aaaa_rec' = FALSE
    /\ changes' = <<>>
    /\ attempt' = 0
    /\ op' = "none"
    /\ calls' = 0
    /\ last' = "none"
    /\ result' = "none"
    /\ UNCHANGED <<prog, config, remote>>

\* one invocation of the network operation o, ending with outcome out; the
\* count starts again when the call of o returns
Invoke(o, out, returns) ==
    /\ op' = o
    /\ calls' = (IF returns THEN 0 ELSE calls + 1)
    /\ last' = out

\* how one request to the provider's API may fail: a transient network error,
\* a client error status (raise_for_status / HTTPError), a body that is not
\* the expected JSON
ApiFailures == {"timeout", "http4xx", "malformed"}

(***************************************************************************)
(* mijnhost.py                                                             *)
(***************************************************************************)
\* for attempt in range(3) of get_records and put_records
M_api_attempts == 3

\* retries=3 of get_public_ipv4 and get_public_ipv6
M_ip_retries == 3

\* faulty variant of M_get_reraises: the last failure is only logged
M_get_reraises_never(att) == FALSE

\* get_records: if attempt == 2: raise
M_get_reraises(att) == att = 2

\* faulty variant of M_ip_returns: no route is handled like any other failure
M_ip_returns_on_ok_only(out) == out = "ok"

\* get_public_ipv4 / get_public_ipv6: the attempt ends the lookup, with the
\* parsed address or, on ClientConnectorError, with None
M_ip_returns(out) == out \in {"ok", "noroute"}

\* main: the exception of a pass leaves main, whatever the interval
M_raise ==
    /\ pc' = "crashed"
    /\ result' = "raised"

\* main: routine returned
M_return ==
    /\ pc' = (IF config.interval = 0 THEN "exited" ELSE "main")
    /\ result' = "ok"

\* main: await routine(config, session), once or after each sleep
M_main ==
    /\ prog = "mijnhost"
    /\ pc = "main"
    /\ Len(remote) <= MaxRemote
    /\ BeginPass

\* get_records: one attempt of its loop; on success routine goes on into
\* update_record_list up to its first await
M_get_records ==
    /\ prog = "mijnhost"
    /\ pc = "get_records"
    /\ \E out \in {"ok"} \cup ApiFailures :
        /\ Invoke("get_records", out, out = "ok")
        /\ IF out = "ok"
           THEN /\ records' = remote
                /\ fetched' = remote
                /\ a_idx' = M_find(remote, "A", M_record_name(config.record_name))
                /\ aaaa_idx' = M_find(remote, "AAAA", M_record_name(config.record_name))
                /\ pc' = "get_public_ipv4"
                /\ attempt' = 0
                /\ UNCHANGED result
           ELSE IF M_get_reraises(attempt)
           THEN /\ M_raise
                /\ UNCHANGED <<records, fetched, a_idx, aaaa_idx, attempt>>
           ELSE IF attempt + 1 < M_api_attempts
           THEN /\ attempt' = attempt + 1
                /\ UNCHANGED <<records, fetched, a_idx, aaaa_idx, pc, result>>
           ELSE \* the loop is over: return []
                /\ records' = <<>>
                /\ fetched' = <<>>
                /\ a_idx' = 0
                /\ aaaa_idx' = 0
                /\ pc' = "get_public_ipv4"
                /\ attempt' = 0
                /\ UNCHANGED result
    /\ UNCHANGED <<prog, config, remote, ipv4, ipv6, action_taken, remove_a_rec,
                   remove_aaaa_rec, changes>>

\* what one request to the public-IP service meets: a body, no route for
\* the family (ClientConnectorError / URLError), or another failure
IpResponses(bodies) ==
    {[kind |-> "body", text |-> b] : b \in bodies}
        \cup {[kind |-> k, text |-> <<>>] : k \in {"noroute", "timeout"}}

\* outcome kind of one attempt of a public-IP lookup: IPv4Address(text) /
\* IPv6Address(text) raises on a malformed body
M_ip_outcome(t, x) ==
    IF x.kind # "body" THEN x.kind
    ELSE IF (IF t = "A" THEN IPv4Valid(x.text) ELSE IPv6Valid(x.text)) THEN "ok"
    ELSE "malformed"

\* what the lookup returns on "ok" (the text of the parsed address) or on
\* ClientConnectorError (None)
M_ip_value(t, x) ==
    IF x.kind # "body" THEN Absent
    ELSE IF t = "A" THEN IPv4Str(x.text) ELSE IPv6Str(x.text)

\* get_public_ipv4: one attempt of its loop; when it returns, the A block of
\* update_record_list runs up to the next await
M_get_public_ipv4 ==
    /\ prog = "mijnhost"
    /\ pc = "get_public_ipv4"
    /\ \E x \in IpResponses(Ipv4Bodies) :
        LET out == M_ip_outcome("A", x) IN
        /\ Invoke("get_public_ipv4", out, M_ip_returns(out))
        /\ IF M_ip_returns(out)
           THEN LET h == M_handle("A", records, config.manage_records,
                                  M_record_name(config.record_name),
                                  a_idx, aaaa_idx, M_ip_value("A", x))
                IN  /\ ipv4' = M_ip_value("A", x)
                    /\ IF h.raised
                       THEN /\ M_raise
                            /\ UNCHANGED <<records, action_taken, remove_a_rec,
                                           changes, attempt>>
                       ELSE /\ records' = h.records
                            /\ action_taken' = h.action
                            /\ remove_a_rec' = h.remove
                            /\ changes' = h.log
                            /\ pc' = "get_public_ipv6"
                            /\ attempt' = 0
                            /\ UNCHANGED result
           ELSE IF attempt = M_ip_retries - 1
           THEN /\ M_raise
                /\ UNCHANGED <<records, action_taken, remove_a_rec, changes,
                               attempt, ipv4>>
           ELSE /\ attempt' = attempt + 1
                /\ UNCHANGED <<records, action_taken, remove_a_rec, changes,
                               ipv4, pc, result>>
    /\ UNCHANGED <<prog, config, remote, fetched, a_idx, aaaa_idx, ipv6,
                   remove_aaaa_rec>>

\* get_public_ipv6: one attempt of its loop; when it returns, the AAAA block
\* and the removals run, update_record_list returns and routine decides on
\* the write
M_get_public_ipv6 ==
    /\ prog = "mijnhost"
    /\ pc = "get_public_ipv6"
    /\ \E x \in IpResponses(Ipv6Bodies) :
        LET out == M_ip_outcome("AAAA", x) IN
        /\ Invoke("get_public_ipv6", out, M_ip_returns(out))
        /\ IF M_ip_returns(out)
           THEN LET name == M_record_name(config.record_name)
                    h == M_handle("AAAA", records, config.manage_records, name,
                                  aaaa_idx, a_idx, M_ip_value("AAAA", x))
                    f == M_finish(h.records, name, remove_a_rec, h.remove,
                                  action_taken \/ h.action, changes \o h.log)
                IN  /\ ipv6' = M_ip_value("AAAA", x)
                    /\ IF h.raised
                       THEN /\ M_raise
                            /\ UNCHANGED <<records, action_taken, remove_aaaa_rec,
                                           changes, attempt>>
                       ELSE /\ records' = f.records
                            /\ action_taken' = f.action
                            /\ remove_aaaa_rec' = h.remove
                            /\ changes' = f.log
                            /\ attempt' = 0
                            /\ IF M_routine_puts(f.action)
                               THEN pc' = "put_records" /\ UNCHANGED result
                               ELSE M_return
           ELSE IF attempt = M_ip_retries - 1
           THEN /\ M_raise
                /\ UNCHANGED <<records, action_taken, remove_aaaa_rec, changes,
                               attempt, ipv6>>
           ELSE /\ attempt' = attempt + 1
                /\ UNCHANGED <<records, action_taken, remove_aaaa_rec, changes,
                               ipv6, pc, result>>
    /\ UNCHANGED <<prog, config, remote, fetched, a_idx, aaaa_idx, ipv4,
                   remove_a_rec>>

\* put_records: one attempt of its loop
M_put_records ==
    /\ prog = "mijnhost"
    /\ pc = "put_records"
    /\ \E out \in {"ok"} \cup (ApiFailures \ {"malformed"}) :
        /\ Invoke("put_records", out, out = "ok")
        /\ IF out = "ok"
           THEN /\ remote' = records
                /\ M_return
                /\ UNCHANGED attempt
           ELSE IF attempt = M_api_attempts - 1
           THEN /\ M_raise
                /\ UNCHANGED <<remote, attempt>>
           ELSE /\ attempt' = attempt + 1
                /\ UNCHANGED <<remote, pc, result>>
    /\ UNCHANGED <<prog, config, records, fetched, a_idx, aaaa_idx, ipv4, ipv6,
                   action_taken, remove_a_rec, remove_aaaa_rec, changes>>

(***************************************************************************)
(* mijn_host_ddns_updater.py                                               *)
(***************************************************************************)
\* main: update_ddns returned; if interval <= 0: break
U_return(res) ==
    /\ pc' = (IF config.interval <= 0 THEN "exited" ELSE "main")
    /\ result' = res

\* main: update_ddns(config, dry_run), once or after each sleep
U_main ==
    /\ prog = "updater"
    /\ pc = "main"
    /\ Len(remote) <= MaxRemote
    /\ BeginPass

\* get_records, one request; update_ddns returns when it yields None
U_get_records ==
    /\ prog = "updater"
    /\ pc = "get_records"
    /\ \E out \in {"ok", "norecords"} \cup ApiFailures :
        /\ Invoke("get_records", out, out = "ok")
        /\ IF out = "ok"
           THEN /\ records' = remote
                /\ fetched' = remote
                /\ pc' = "get_public_ipv4"
                /\ UNCHANGED result
           ELSE /\ U_return("aborted")
                /\ UNCHANGED <<records, fetched>>
    /\ UNCHANGED <<prog, config, remote, a_idx, aaaa_idx, ipv4, ipv6, action_taken,
                   remove_a_rec, remove_aaaa_rec, changes, attempt>>

\* get_public_ip: the stripped body as it is, None on URLError / HTTPError
U_ip_value(x) == IF x.kind = "body" THEN x.text ELSE Absent

\* public_ipv4 = get_public_ip(4)
U_get_public_ipv4 ==
    /\ prog = "updater"
    /\ pc = "get_public_ipv4"
    /\ \E x \in IpResponses(Ipv4Bodies) :
        /\ Invoke("get_public_ipv4", x.kind, TRUE)
        /\ ipv4' = U_ip_value(x)
    /\ pc' = "get_public_ipv6"
    /\ UNCHANGED <<prog, config, remote, records, fetched, a_idx, aaaa_idx, ipv6,
                   action_taken, remove_a_rec, remove_aaaa_rec, changes, attempt,
                   result>>

\* public_ipv6 = get_public_ip(6), the loop over the record names and the
\* decision on the write
U_get_public_ipv6 ==
    /\ prog = "updater"
    /\ pc = "get_public_ipv6"
    /\ \E x \in IpResponses(Ipv6Bodies) :
        LET st == U_loop(config.record_names,
                         [records |-> records, changes |-> changes],
                         ipv4, U_ip_value(x), config)
        IN  /\ Invoke("get_public_ipv6", x.kind, TRUE)
            /\ ipv6' = U_ip_value(x)
            /\ records' = st.records
            /\ changes' = st.changes
            /\ IF U_puts(st.changes, config.dry_run)
               THEN pc' = "put_records" /\ UNCHANGED result
               ELSE U_return("ok")
    /\ UNCHANGED <<prog, config, remote, fetched, a_idx, aaaa_idx, ipv4,
                   action_taken, remove_a_rec, remove_aaaa_rec, attempt>>

\* put_records, one request; a failure is logged and False returned
U_put_records ==
    /\ prog = "updater"
    /\ pc = "put_records"
    /\ \E out \in {"ok"} \cup (ApiFailures \ {"malformed"}) :
        /\ Invoke("put_records", out, out = "ok")
        /\ remote' = (IF out = "ok" THEN records ELSE remote)
        /\ U_return(IF out = "ok" THEN "ok" ELSE "put_failed")
    /\ UNCHANGED <<prog, config, records, fetched, a_idx, aaaa_idx, ipv4, ipv6,
                   action_taken, remove_a_rec, remove_aaaa_rec, changes, attempt>>

(***************************************************************************)
(* mijn_host_ddns_update.py                                                *)
(***************************************************************************)
\* main: update_ddns(config), once
V_main ==
    /\ prog = "update"
    /\ pc = "main"
    /\ BeginPass

\* get_records, one request; update_ddns returns when it yields None
V_get_records ==
    /\ prog = "update"
    /\ pc = "get_records"
    /\ \E out \in {"ok", "norecords"} \cup ApiFailures :
        /\ Invoke("get_records", out, out = "ok")
        /\ IF out = "ok"
           THEN /\ records' = remote
                /\ fetched' = remote
                /\ pc' = "get_public_ipv4"
                /\ UNCHANGED result
           ELSE /\ pc' = "exited"
                /\ result' = "aborted"
                /\ UNCHANGED <<records, fetched>>
    /\ UNCHANGED <<prog, config, remote, a_idx, aaaa_idx, ipv4, ipv6, action_taken,
                   remove_a_rec, remove_aaaa_rec, changes, attempt>>

\* "Stap 1": public_ipv4 = get_public_ip(4) and the A record
V_get_public_ipv4 ==
    /\ prog = "update"
    /\ pc = "get_public_ipv4"
    /\ \E x \in IpResponses(Ipv4Bodies) :
        LET h == V_process("A", records, V_record_name(config.record_name),
                           U_ip_value(x))
        IN  /\ Invoke("get_public_ipv4", x.kind, TRUE)
            /\ ipv4' = U_ip_value(x)
            /\ records' = h.records
            /\ action_taken' = h.action
            /\ changes' = h.log
    /\ pc' = "get_public_ipv6"
    /\ UNCHANGED <<prog, config, remote, fetched, a_idx, aaaa_idx, ipv6,
                   remove_a_rec, remove_aaaa_rec, attempt, result>>

\* "Stap 2" and "Stap 3": public_ipv6 = get_public_ip(6), the AAAA record and
\* the decision on the write
V_get_public_ipv6 ==
    /\ prog = "update"
    /\ pc = "get_public_ipv6"
    /\ \E x \in IpResponses(Ipv6Bodies) :
        LET h == V_process("AAAA", records, V_record_name(config.record_name),
                           U_ip_value(x))
        IN  /\ Invoke("get_public_ipv6", x.kind, TRUE)
            /\ ipv6' = U_ip_value(x)
            /\ records' = h.records
            /\ action_taken' = (action_taken \/ h.action)
            /\ changes' = changes \o h.log
            /\ IF V_puts(action_taken \/ h.action)
               THEN pc' = "put_records" /\ UNCHANGED result
               ELSE pc' = "exited" /\ result' = "ok"
    /\ UNCHANGED <<prog, config, remote, fetched, a_idx, aaaa_idx, ipv4,
                   remove_a_rec, remove_aaaa_rec, attempt>>

\* put_records, one request; a failure is logged and False returned
V_put_records ==
    /\ prog = "update"
    /\ pc = "put_records"
    /\ \E out \in {"ok"} \cup (ApiFailures \ {"malformed"}) :
        /\ Invoke("put_records", out, out = "ok")
        /\ remote' = (IF out = "ok" THEN records ELSE remote)
        /\ result' = (IF out = "ok" THEN "ok" ELSE "put_failed")
    /\ pc' = "exited"
    /\ UNCHANGED <<prog, config, records, fetched, a_idx, aaaa_idx, ipv4, ipv6,
                   action_taken, remove_a_rec, remove_aaaa_rec, changes, attempt>>

(***************************************************************************)
(* mijnhost.py: retry_async, applied to a stub that fails or returns.      *)
(***************************************************************************)
\* if attempt > retries: raise   (attempt already incremented)
R_gives_up(att, retries) == att > retries

\* the caller enters retry_async: attempt = 0
R_main ==
    /\ prog = "retry_async"
    /\ pc = "main"
    /\ pc' = "call"
    /\ attempt' = 0
    /\ UNCHANGED <<prog, config, remote, records, fetched, a_idx, aaaa_idx, ipv4,
                   ipv6, action_taken, remove_a_rec, remove_aaaa_rec, changes, op,
                   calls, last, result>>

\* one turn of `while True`: await func(...), return it or count the failure
R_call ==
    /\ prog = "retry_async"
    /\ pc = "call"
    /\ \E out \in {"ok"} \cup ApiFailures :
        /\ Invoke("func", out, out = "ok")
        /\ IF out = "ok"
           THEN /\ pc' = "exited"
                /\ result' = "ok"
                /\ UNCHANGED attempt
           ELSE /\ attempt' = attempt + 1
                /\ IF R_gives_up(attempt + 1, config.retries)
                   THEN pc' = "crashed" /\ result' = "raised"
                   ELSE UNCHANGED <<pc, result>>
    /\ UNCHANGED <<prog, config, remote, records, fetched, a_idx, aaaa_idx, ipv4,
                   ipv6, action_taken, remove_a_rec, remove_aaaa_rec, changes>>

Next ==
    \/ M_main
    \/ M_get_records
    \/ M_get_public_ipv4
    \/ M_get_public_ipv6
    \/ M_put_records
    \/ U_main
    \/ U_get_records
    \/ U_get_public_ipv4
    \/ U_get_public_ipv6
    \/ U_put_records
    \/ V_main
    \/ V_get_records
    \/ V_get_public_ipv4
    \/ V_get_public_ipv6
    \/ V_put_records
    \/ R_main
    \/ R_call

Spec == Init /\ [][Next]_vars

(***************************************************************************)
(* The reconciliation of a whole pass as one function, as the claims speak *)
(* of it.                                                                  *)
(***************************************************************************)
\* mijnhost.py: update_record_list from its first line to its return, the
\* two lookups having returned ip4 and ip6
M_update_record_list(recs, cfg, ip4, ip6) ==
    LET name == M_record_name(cfg.record_name)
        ai == M_find(recs, "A", name)
        qi == M_find(recs, "AAAA", name)
        hA == M_handle("A", recs, cfg.manage_records, name, ai, qi, ip4)
        hQ == M_handle("AAAA", hA.records, cfg.manage_records, name, qi, ai, ip6)
        f  == M_finish(hQ.records, name, hA.remove, hQ.remove,
                       hA.action \/ hQ.action, hA.log \o hQ.log)
    IN  [records |-> f.records, changes |-> f.log,
         puts |-> M_routine_puts(f.action), raised |-> hA.raised \/ hQ.raised]

\* mijn_host_ddns_updater.py: update_ddns from records_to_update to the
\* decision on the write
U_update_ddns(recs, cfg, ip4, ip6) ==
    LET st == U_loop(cfg.record_names, [records |-> recs, changes |-> <<>>],
                     ip4, ip6, cfg)
    IN  [records |-> st.records, changes |-> st.changes,
         puts |-> U_puts(st.changes, cfg.dry_run), raised |-> FALSE]

\* mijn_host_ddns_update.py: update_ddns from records_to_update to the
\* decision on the write
V_update_ddns(recs, cfg, ip4, ip6) ==
    LET name == V_record_name(cfg.record_name)
        hA == V_process("A", recs, name, ip4)
        hQ == V_process("AAAA", hA.records, name, ip6)
    IN  [records |-> hQ.records, changes |-> hA.log \o hQ.log,
         puts |-> V_puts(hA.action \/ hQ.action), raised |-> FALSE]

\* one more pass of the running program over recs, with the addresses of
\* the pass that has just run
Reconcile(recs) ==
    CASE prog = "mijnhost" -> M_update_record_list(recs, config, ipv4, ipv6)
      [] prog = "updater"  -> U_update_ddns(recs, config, ipv4, ipv6)
      [] prog = "update"   -> V_update_ddns(recs, config, ipv4, ipv6)

(***************************************************************************)
(* Vocabulary of the claims.                                               *)
(***************************************************************************)
PassPrograms == {"mijnhost", "updater", "update"}

Families == {"A", "AAAA"}

\* the discovered address of a family in the current pass
Ip(t) == IF t = "A" THEN ipv4 ELSE ipv6

\* the records of the pass have been fetched
Fetched == prog \in PassPrograms /\ op \notin {"none", "get_records"}

\* reconciliation of the current pass has run to its end without raising
ReconcileDone ==
    /\ prog \in PassPrograms
    /\ \/ pc = "put_records"
       \/ op = "put_records"
       \/ (op = "get_public_ipv6" /\ result = "ok")

\* at least one PUT request has been sent in the current pass
PutIssued == prog \in PassPrograms /\ op = "put_records"

\* the target names of the configuration, trailing dot stripped
Targets ==
    CASE prog = "mijnhost" -> {rstrip_dot(M_record_name(config.record_name))}
      [] prog = "updater"  ->
            {U_full_target_name(config.record_names[i]) : i \in 1..Len(config.record_names)}
      [] prog = "update"   -> {rstrip_dot(V_record_name(config.record_name))}
      [] OTHER -> {}

\* r is the record of family t for target T, names compared without their
\* trailing dot
ManagedFor(r, t, T) == r.type = t /\ rstrip_dot(r.name) = T

Managed(r) == \E t \in Families, T \in Targets : ManagedFor(r, t, T)

\* index in recs of the first record of family t for target T, 0 if none
ManagedIdx(recs, t, T) == FirstIdx({i \in 1..Len(recs) : ManagedFor(recs[i], t, T)})

\* record management (creation, and deletion where the program has it) is on
PolicyOn ==
    \/ prog = "mijnhost" /\ config.manage_records
    \/ prog = "updater" /\ config.create_records_if_missing

PolicyOff ==
    \/ prog = "mijnhost" /\ ~config.manage_records
    \/ prog = "updater" /\ ~config.create_records_if_missing

\* the changes of kind k the pass computed for family t and target T
ChangesOf(k, t, T) ==
    SelectSeq(changes, LAMBDA c : c.kind = k /\ c.type = t /\ rstrip_dot(c.name) = T)

\* the discovered addresses are absent or literals of their family
ValidDiscovered ==
    /\ ipv4 = Absent \/ IPv4Valid(ipv4)
    /\ ipv6 = Absent \/ IPv6Valid(ipv6)

\* the record of family t for target T as the running program looks it up
LocatedIdx(recs, t, T) ==
    CASE prog = "mijnhost" -> M_find(recs, t, M_record_name(config.record_name))
      [] prog = "updater"  -> U_find(recs, t, T)
      [] prog = "update"   -> V_find(recs, t, V_record_name(config.record_name))

OfType(recs, t) == SelectSeq(recs, LAMBDA r : r.type = t)

NotOfType(recs, t) == SelectSeq(recs, LAMBDA r : r.type # t)

Without(recs, i) == SubSeq(recs, 1, i - 1) \o SubSeq(recs, i + 1, Len(recs))

OtherFamily(t) == IF t = "A" THEN "AAAA" ELSE "A"

IsPrefix(s, t) == Len(s) <= Len(t) /\ SubSeq(t, 1, Len(s)) = s

(***************************************************************************)
(* C1.  Idempotence of reconciliation.  Once a pass has reconciled its     *)
(* record set, a second pass over the record set it produced, with the     *)
(* same configuration and the same discovered addresses, computes no       *)
(* change, leaves the records as they are and issues no write.             *)
(* Stated as the claim has it, for all three programs.                     *)
(***************************************************************************)
C1_Idempotence ==
    (ReconcileDone /\ ValidDiscovered) =>
        LET again == Reconcile(records)
        IN  /\ ~again.raised
            /\ again.changes = <<>>
            /\ again.records = records
            /\ ~again.puts

(***************************************************************************)
(* C2.  No write without a change.  Whenever a pass is about to send or    *)
(* has sent a PUT, reconciliation computed at least one change in that     *)
(* pass: the change flag of the program is set, a change was reported and  *)
(* the record set differs from the one fetched.                            *)
(***************************************************************************)
ChangeFlag == IF prog = "updater" THEN changes # <<>> ELSE action_taken

C2_NoWriteWithoutChange ==
    (prog \in PassPrograms /\ (pc = "put_records" \/ PutIssued)) =>
        /\ ChangeFlag
        /\ changes # <<>>
        /\ records # fetched

\* a pass over a non-empty record set, with both addresses discovered, that
\* computed no change and ended without a PUT
C2_Witness ==
    /\ prog \in PassPrograms
    /\ result = "ok"
    /\ fetched # <<>>
    /\ ipv4 # Absent
    /\ ipv6 # Absent
    /\ changes = <<>>
    /\ records = fetched
    /\ \E T \in Targets : LocatedIdx(fetched, "A", T) # 0
    /\ ~PutIssued
    /\ remote = fetched

(***************************************************************************)
(* C3.  Untouched passthrough.  At every point of a pass after the fetch,  *)
(* the fetched records that are not an A or AAAA record of a target name   *)
(* (names compared without trailing dot) are all in the working record     *)
(* set, in their order and with the same type, name, value and ttl; and    *)
(* what a successful PUT stores is that whole working set.                 *)
(***************************************************************************)
Unmanaged(recs) == SelectSeq(recs, LAMBDA r : ~Managed(r))

C3_UntouchedPassthrough ==
    Fetched =>
        /\ IsPrefix(Unmanaged(fetched), Unmanaged(records))
        /\ (PutIssued /\ last = "ok") => remote = records

\* a pass that changed a managed record, kept two others and wrote the set
C3_Witness ==
    /\ PutIssued
    /\ last = "ok"
    /\ records # fetched
    /\ Len(Unmanaged(fetched)) = 1
    /\ Len(fetched) = 2
    /\ remote = records
    /\ \E c \in 1..Len(changes) : changes[c].kind = "Delete"

(***************************************************************************)
(* C4.  Deletion on address loss (mijnhost.py, the program with            *)
(* manage_records).  When record management is on, the program finds a     *)
(* record of a family for the target and no address of that family is      *)
(* discovered, the pass removes exactly that one record, reports exactly   *)
(* one deletion for the family, and leaves every other record as fetched   *)
(* unless the other family changed in its own right.                       *)
(***************************************************************************)
C4_DeletionOnAddressLoss ==
    \A t \in Families, T \in Targets :
        ( /\ ReconcileDone
          /\ prog = "mijnhost"
          /\ config.manage_records
          /\ ValidDiscovered
          /\ Ip(t) = Absent
          /\ LocatedIdx(fetched, t, T) # 0 ) =>
            /\ Len(ChangesOf("Delete", t, T)) = 1
            /\ OfType(records, t) = OfType(Without(fetched, LocatedIdx(fetched, t, T)), t)
            /\ (Len(changes) = 1 => NotOfType(records, t) = NotOfType(fetched, t))

(***************************************************************************)
(* C5.  Creation respects policy.  With record management off              *)
(* (manage_records false in mijnhost.py, create_records_if_missing false   *)
(* in mijn_host_ddns_updater.py) no record is ever appended and no         *)
(* creation is reported; a family whose address was discovered but which   *)
(* has no record for a target contributes no change for it; and when that  *)
(* is so for every family and target, the pass writes nothing.             *)
(***************************************************************************)
NoRecordFor(t, T) == ManagedIdx(fetched, t, T) = 0

C5_CreationRespectsPolicy ==
    (Fetched /\ PolicyOff) =>
        /\ Len(records) <= Len(fetched)
        /\ \A c \in 1..Len(changes) : changes[c].kind # "Create"
        /\ \A t \in Families, T \in Targets :
              (Ip(t) # Absent /\ NoRecordFor(t, T)) =>
                  \A c \in 1..Len(changes) :
                      ~(changes[c].type = t /\ rstrip_dot(changes[c].name) = T)
        /\ (\A t \in Families, T \in Targets : NoRecordFor(t, T)) =>
              (changes = <<>> /\ records = fetched /\ pc # "put_records" /\ ~PutIssued)

\* management off, both addresses discovered, no A or AAAA record for the
\* target among the two fetched: the pass ended with nothing appended
C5_Witness ==
    /\ PolicyOff
    /\ result = "ok"
    /\ op = "get_public_ipv6"
    /\ IPv4Valid(ipv4)
    /\ IPv6Valid(ipv6)
    /\ Len(fetched) = 2
    /\ \A t \in Families, T \in Targets : NoRecordFor(t, T)
    /\ records = fetched
    /\ remote = fetched

(***************************************************************************)
(* C6.  TTL inheritance on create.  Every record a pass creates carries    *)
(* the ttl of the record of the other family the program finds for the     *)
(* same target in the fetched set, and the default ttl when there is none. *)
(* Creations are appended, so the created records are the last records of  *)
(* the working set, in the order of the reported creations.                *)
(***************************************************************************)
Creations == SelectSeq(changes, LAMBDA c : c.kind = "Create")

DefaultTtl == IF prog = "mijnhost" THEN DEFAULT_TTL ELSE config.default_ttl

InheritedTtl(t, T) ==
    LET j == LocatedIdx(fetched, OtherFamily(t), T)
    IN  IF j # 0 THEN fetched[j].ttl ELSE DefaultTtl

C6_TtlInheritance ==
    (ReconcileDone /\ ValidDiscovered) =>
        \A k \in 1..Len(Creations) :
            LET r == records[Len(records) - Len(Creations) + k]
                c == Creations[k]
            IN  /\ r.type = c.type
                /\ r.ttl = InheritedTtl(c.type, rstrip_dot(c.name))

(***************************************************************************)
(* C7.  Name normalization.  In every program the record found for a       *)
(* family and a target is the first record of that family whose name       *)
(* equals the target once a trailing dot is stripped from both; in         *)
(* mijnhost.py that is what a_idx and aaaa_idx hold after the fetch.       *)
(***************************************************************************)
C7_NameNormalization ==
    Fetched =>
        /\ \A t \in Families, T \in Targets :
              LocatedIdx(fetched, t, T) = ManagedIdx(fetched, t, T)
        /\ prog = "mijnhost" =>
              \A T \in Targets :
                  /\ a_idx = ManagedIdx(fetched, "A", T)
                  /\ aaaa_idx = ManagedIdx(fetched, "AAAA", T)

(***************************************************************************)
(* C8.  Normalized address comparison (mijnhost.py and                     *)
(* mijn_host_ddns_updater.py).  When the program finds a record of a       *)
(* family for a target, its value is a literal of the family and an        *)
(* address of the family was discovered, the pass reports an update of     *)
(* that record if and only if the two differ as normalized literals; when  *)
(* they are the same address the record stays as fetched.                  *)
(***************************************************************************)
Normalized(t, text) == IF t = "A" THEN IPv4Str(text) ELSE IPv6Str(text)

ValidLiteral(t, text) == IF t = "A" THEN IPv4Valid(text) ELSE IPv6Valid(text)

C8_NormalizedComparison ==
    \A t \in Families, T \in Targets :
        ( /\ ReconcileDone
          /\ prog \in {"mijnhost", "updater"}
          /\ ValidDiscovered
          /\ Ip(t) # Absent
          /\ LocatedIdx(fetched, t, T) # 0
          /\ ValidLiteral(t, fetched[LocatedIdx(fetched, t, T)].value) ) =>
            LET old == fetched[LocatedIdx(fetched, t, T)]
                differ == Normalized(t, old.value) # Normalized(t, Ip(t))
            IN  /\ (ChangesOf("Update", t, T) # <<>>) <=> differ
                /\ ~differ => \E j \in 1..Len(records) : records[j] = old

(***************************************************************************)
(* C9.  Non-transient failures are not retried.  Once an invocation of     *)
(* get_records, of put_records or of the function retry_async wraps has    *)
(* failed with a 4xx client error, no step invokes that operation again    *)
(* in the same call.                                                       *)
(***************************************************************************)
InvokedAgain == op' = op /\ (calls' = calls + 1 \/ (last' = "ok" /\ calls' = 0))

C9_ClientErrorNotRetried ==
    [][(op \in {"get_records", "put_records", "func"} /\ last = "http4xx")
          => ~InvokedAgain]_vars

(***************************************************************************)
(* C10.  Bounded retry with propagation (mijnhost.py).  A retried          *)
(* operation is invoked at most max_attempts times in one call: 3 for      *)
(* get_records and put_records, `retries` for get_public_ipv4,             *)
(* get_public_ipv6 and, with retries >= 1, retry_async; and when its       *)
(* retry loop has ended on a failure, that was after max_attempts          *)
(* invocations and the failure has been raised to the caller.              *)
(***************************************************************************)
MaxAttempts ==
    CASE op \in {"get_records", "put_records"} -> M_api_attempts
      [] op \in {"get_public_ipv4", "get_public_ipv6"} -> M_ip_retries
      [] op = "func" -> config.retries

\* where the program stands while the retry loop of op runs
LoopPc == IF op = "func" THEN "call" ELSE op

C10_BoundedRetry ==
    ( /\ prog \in {"mijnhost", "retry_async"}
      /\ op # "none"
      /\ (prog = "retry_async" => config.retries >= 1) ) =>
        /\ calls <= MaxAttempts
        /\ (calls > 0 /\ pc # LoopPc) =>
              (pc = "crashed" /\ result = "raised" /\ calls = MaxAttempts)

(***************************************************************************)
(* C11.  IP discovery yields absent, not an error, on exhausted retries    *)
(* (mijnhost.py).  A lookup whose last attempt failed transiently (a       *)
(* timeout, a body that is not a literal of the family) has not crashed    *)
(* the pass; and when all its attempts are used up the lookup is over, the *)
(* family counts as having no address and the pass goes on.                *)
(***************************************************************************)
LookupOp(t) == IF t = "A" THEN "get_public_ipv4" ELSE "get_public_ipv6"

TransientIpFailures == {"timeout", "malformed"}

C11_ExhaustedDiscoveryYieldsAbsent ==
    \A t \in Families :
        (prog = "mijnhost" /\ op = LookupOp(t) /\ last \in TransientIpFailures) =>
            /\ pc # "crashed"
            /\ result # "raised"
            /\ calls = M_ip_retries => (Ip(t) = Absent /\ pc # LookupOp(t))

(***************************************************************************)
(* C12.  No-route short-circuit (mijnhost.py).  A lookup attempt that      *)
(* finds no route for its family ends the lookup in that very step,        *)
(* whatever the number of attempts already made: the address of the family *)
(* is absent, no further attempt is pending, nothing is raised and the     *)
(* pass moves on.                                                          *)
(***************************************************************************)
NoRouteStep(t) ==
    /\ prog = "mijnhost"
    /\ pc = LookupOp(t)
    /\ op' = LookupOp(t)
    /\ last' = "noroute"

C12_NoRouteShortCircuit ==
    [][\A t \in Families :
          NoRouteStep(t) =>
              /\ pc' \notin {LookupOp(t), "crashed"}
              /\ result' # "raised"
              /\ Ip(t)' = Absent
              /\ calls' = 0
              /\ attempt' = 0]_vars

\* the IPv4 lookup for a fetched A record met no route, and the pass has
\* gone on to the IPv6 lookup with no IPv4 address
C12_Witness ==
    /\ prog = "mijnhost"
    /\ op = "get_public_ipv4"
    /\ last = "noroute"
    /\ pc = "get_public_ipv6"
    /\ ipv4 = Absent
    /\ fetched # <<>>
    /\ a_idx # 0

(***************************************************************************)
(* C13.  Fetch failure aborts the pass before any write.  When the fetch   *)
(* of the record set has ended in failure (the third failed attempt in     *)
(* mijnhost.py; a failed request, a body that is not JSON or an answer     *)
(* without records in the two synchronous programs), the pass is over:     *)
(* the program is back in main or has left it, no record set was taken     *)
(* over, no lookup ran, no change was computed and no PUT is pending.      *)
(***************************************************************************)
FetchFailed ==
    /\ prog \in PassPrograms
    /\ op = "get_records"
    /\ last # "ok"
    /\ pc # "get_records"

C13_FetchFailureAborts ==
    FetchFailed =>
        /\ pc \in {"crashed", "exited", "main"}
        /\ result \in {"raised", "aborted"}
        /\ records = <<>>
        /\ fetched = <<>>
        /\ changes = <<>>
        /\ ~action_taken
        /\ ~remove_a_rec
        /\ ~remove_aaaa_rec
        /\ ipv4 = Absent
        /\ ipv6 = Absent

\* mijnhost.py with record management on: the third attempt of get_records
\* failed while the provider holds records
C13_Witness ==
    /\ FetchFailed
    /\ prog = "mijnhost"
    /\ config.manage_records
    /\ calls = M_api_attempts
    /\ result = "raised"
    /\ remote # <<>>

(***************************************************************************)
(* C14.  Interval mode survives a failed pass (mijnhost.py and             *)
(* mijn_host_ddns_updater.py).  With a positive interval the repeating     *)
(* loop of main is never left: whatever a pass met, the program is in a    *)
(* pass or back in main waiting for the next one.                          *)
(***************************************************************************)
C14_IntervalModeSurvives ==
    (prog \in {"mijnhost", "updater"} /\ config.interval > 0) =>
        /\ pc \notin {"crashed", "exited"}
        /\ result \in {"raised", "aborted", "put_failed"} => pc = "main"

(***************************************************************************)
(* C15.  Dry-run never writes (mijn_host_ddns_updater.py).  In a pass run  *)
(* with dry_run no PUT is pending or sent and the provider holds what was  *)
(* fetched; the changes the pass computed are still there to be reported:  *)
(* at the end of the pass the list of changes is non-empty exactly when    *)
(* the working record set differs from the fetched one.                    *)
(***************************************************************************)
C15_DryRunNeverWrites ==
    (prog = "updater" /\ config.dry_run) =>
        /\ pc # "put_records"
        /\ ~PutIssued
        /\ Fetched => remote = fetched
        /\ ReconcileDone => (changes # <<>> <=> records # fetched)

\* a dry run that computed changes and ended without touching the provider
C15_Witness ==
    /\ prog = "updater"
    /\ config.dry_run
    /\ result = "ok"
    /\ pc \in {"main", "exited"}
    /\ changes # <<>>
    /\ records # fetched
    /\ remote = fetched
    /\ fetched # <<>>

(***************************************************************************)
(* C16.  At most one managed record per key after reconciliation           *)
(* (mijnhost.py and mijn_host_ddns_updater.py).  Whatever record set was   *)
(* fetched, the record set a pass has reconciled holds at most one A and   *)
(* at most one AAAA record whose name, trailing dot stripped, is a target  *)
(* name.                                                                   *)
(***************************************************************************)
ManagedCount(recs, t, T) ==
    Cardinality({i \in 1..Len(recs) : ManagedFor(recs[i], t, T)})

C16_AtMostOneManaged ==
    (ReconcileDone /\ prog \in {"mijnhost", "updater"}) =>
        \A t \in Families, T \in Targets : ManagedCount(records, t, T) <= 1

(***************************************************************************)
(* C17.  Convergence (mijnhost.py and mijn_host_ddns_updater.py).  With    *)
(* record management on and no dry run, once a pass has completed with     *)
(* its calls succeeding, the provider holds for every target an A record   *)
(* with the discovered IPv4 address if one was discovered and no A record  *)
(* otherwise, likewise for AAAA and IPv6; and one more pass with the same  *)
(* addresses leaves what the provider holds as it is and writes nothing.   *)
(***************************************************************************)
PassCompleted ==
    /\ prog \in {"mijnhost", "updater"}
    /\ result = "ok"
    /\ pc \in {"main", "exited"}

\* two texts that are the same address of family t
SameAddress(t, v, w) ==
    \/ v = w
    \/ /\ ValidLiteral(t, v)
       /\ ValidLiteral(t, w)
       /\ Normalized(t, v) = Normalized(t, w)

MatchesDiscovered(recs, t, T) ==
    IF Ip(t) # Absent
    THEN \E i \in 1..Len(recs) :
            ManagedFor(recs[i], t, T) /\ SameAddress(t, recs[i].value, Ip(t))
    ELSE ManagedCount(recs, t, T) = 0

C17_Convergence ==
    (PassCompleted /\ PolicyOn /\ ~config.dry_run /\ ValidDiscovered) =>
        /\ \A t \in Families, T \in Targets : MatchesDiscovered(remote, t, T)
        /\ LET again == Reconcile(remote)
           IN  /\ ~again.raised
               /\ again.records = remote
               /\ ~again.puts

(***************************************************************************)
(* C18.  Duplicates are not deduplicated (mijnhost.py).  When the fetched  *)
(* set holds more than one record of a family with the configured name,    *)
(* reconciliation acts on the first of them only: the later ones are all   *)
(* in the reconciled set, in their order, with the value and ttl they had. *)
(***************************************************************************)
M_matching(recs, t) ==
    SelectSeq(recs, LAMBDA r : r.type = t /\ r.name = M_record_name(config.record_name))

IsSuffix(s, t) == Len(s) <= Len(t) /\ SubSeq(t, Len(t) - Len(s) + 1, Len(t)) = s

C18_DuplicatesKept ==
    \A t \in Families :
        ( /\ ReconcileDone
          /\ prog = "mijnhost"
          /\ Len(M_matching(fetched, t)) > 1 ) =>
            IsSuffix(Tail(M_matching(fetched, t)), M_matching(records, t))

(***************************************************************************)
(* C19.  Order of calls within a pass (mijnhost.py and                     *)
(* mijn_host_ddns_updater.py).  While a public-IP lookup of the pass is    *)
(* still to be made, no reconciliation decision has been taken for either  *)
(* family: the working record set is the fetched one, no change is         *)
(* recorded, no flag is set.  And a write is only pending once the fetch   *)
(* and the second lookup have been made.                                   *)
(***************************************************************************)
LookupPending == pc \in {"get_public_ipv4", "get_public_ipv6"}

NoDecisionTaken ==
    /\ records = fetched
    /\ changes = <<>>
    /\ ~action_taken
    /\ ~remove_a_rec
    /\ ~remove_aaaa_rec

C19_OrderOfCalls ==
    prog \in {"mijnhost", "updater"} =>
        /\ LookupPending => NoDecisionTaken
        /\ pc = "put_records" => op \in {"get_public_ipv6", "put_records"}
        /\ PutIssued => pc \in {"put_records", "main", "exited", "crashed"}

(***************************************************************************)
(* C20.  Update changes the value only.  When a pass reports the update    *)
(* of the record of a family for a target, the record the program found    *)
(* had another value, and the reconciled set holds in its place (the same  *)
(* rank among the records of the family, and the same index when the pass  *)
(* removed nothing) a record with the type, name and ttl it had and the    *)
(* discovered address as value.                                            *)
(***************************************************************************)
Rank(recs, i, t) == Cardinality({j \in 1..i : recs[j].type = t})

NothingDeleted == \A c \in 1..Len(changes) : changes[c].kind # "Delete"

PassOver == pc \in {"main", "exited", "crashed"}

Mutated == Fetched /\ records # fetched

C21_MutationIsWritten ==
    (prog \in PassPrograms /\ ~config.dry_run /\ Mutated) =>
        /\ ChangeFlag
        /\ PassOver => PutIssued
        /\ (PutIssued /\ last = "ok") => remote = records

(***************************************************************************)
(* C22.  TTL consistency after a creating pass (mijnhost.py).  When the    *)
(* fetched set holds at most one A and at most one AAAA record with the    *)
(* configured name, the pass created a record, and the reconciled set      *)
(* holds an A and an AAAA record with that name, the two have the same     *)
(* ttl; also when both were created in this pass.                          *)
(***************************************************************************)
C22_TtlConsistency ==
    ( /\ ReconcileDone
      /\ prog = "mijnhost"
      /\ \A t \in Families : Len(M_matching(fetched, t)) <= 1
      /\ Creations # <<>>
      /\ \A t \in Families : M_matching(records, t) # <<>> ) =>
        /\ \A t \in Families : Len(M_matching(records, t)) = 1
        /\ M_matching(records, "A")[1].ttl = M_matching(records, "AAAA")[1].ttl

\* the AAAA record was created next to a fetched A record with ttl 1800 and
\* the set was written
C22_Witness ==
    /\ prog = "mijnhost"
    /\ PutIssued
    /\ last = "ok"
    /\ remote = records
    /\ Len(Creations) = 1
    /\ Creations[1].type = "AAAA"
    /\ Len(M_matching(fetched, "A")) = 1
    /\ Len(M_matching(records, "AAAA")) = 1
    /\ Len(M_matching(records, "A")) = 1
    /\ M_matching(records, "A")[1].ttl = 1800
    /\ M_matching(records, "AAAA")[1].ttl = 1800

(***************************************************************************)
(* C23.  A malformed stored value blocks the pass (mijnhost.py).  When     *)
(* the record of a family the program found in the fetched set has a       *)
(* value that is no literal of the family and an address of the family     *)
(* has been discovered, the pass has ended with the error raised: no PUT   *)
(* was sent, the provider holds what was fetched and the record still has  *)
(* its stored value.                                                       *)
(***************************************************************************)
M_idx(t) == IF t = "A" THEN a_idx ELSE aaaa_idx

MalformedStored(t) ==
    /\ prog = "mijnhost"
    /\ Fetched
    /\ M_idx(t) # 0
    /\ M_value_raises(t, fetched[M_idx(t)].value)

C23_MalformedStoredBlocks ==
    \A t \in Families :
        (MalformedStored(t) /\ Ip(t) # Absent) =>
            /\ pc = "crashed"
            /\ result = "raised"
            /\ ~PutIssued
            /\ remote = fetched
            /\ records[M_idx(t)].value = fetched[M_idx(t)].value

\* record management on, the A record found holds "bogus", 5.6.7.8 was
\* discovered: the pass has ended with the error
C23_Witness ==
    /\ MalformedStored("A")
    /\ config.manage_records
    /\ ipv4 = V4b
    /\ op = "get_public_ipv4"
    /\ last = "ok"
    /\ pc = "crashed"
    /\ remote = fetched
    /\ Len(fetched) = 2

====
